---- MODULE Spec2Model ----
(***************************************************************************)
(* Model of pyrec/accuracy.py: the three accuracy metrics rmse, mae and    *)
(* fcp over a list of predictions.                                         *)
(*                                                                         *)
(* A prediction is the tuple (uid, iid, r_ui, est, details).  The metrics  *)
(* unpack iid and details into the wildcard `_` and never read them, so a  *)
(* prediction is modelled by the three fields that are read:               *)
(* <<uid, r_ui, est>>.                                                     *)
(*                                                                         *)
(* Numbers.  Ratings are integers.  statistics.mean sums exact fractions,  *)
(* so a mean is the exact rational Sum / Len; values are kept exact, as    *)
(* records [n, d, r] standing for the r-th root of n / d (r = 1: a         *)
(* rational, r = 2: an irrational square root), in lowest terms.  The      *)
(* rounding of the binary floating-point results is not modelled.          *)
(***************************************************************************)
EXTENDS Integers, Sequences, FiniteSets, TLC

\* Longest prediction list drawn by Init.
MaxLen == 3
\* Longest prediction list drawn by InitWide.
MaxLenWide == 5

Users == {"u1", "u2"}
Ratings == {1, 2, 3}
RatingsWide == {1, 2}

Prediction == Users \X Ratings \X Ratings
PredictionWide == Users \X RatingsWide \X RatingsWide

ListsUpTo(S, n) == UNION {[1..k -> S] : k \in 0..n}

VARIABLES
    predictions,    \* the caller's list, the argument `predictions`
    output,         \* the argument `output`
    fn,             \* the function that was called, "none" before the call
    pc,             \* position of the call
    predictions_u,  \* fcp's local: uid -> list of <<r0, est>>
    scan,           \* fcp's local: the uids the loop of line 102 has yet to visit
    nc_u,           \* fcp's local: uid -> number of concordant pairs
    nd_u,           \* fcp's local: uid -> number of discordant pairs
    outcome,        \* how the call ended: a returned value or a raised error
    stdout          \* the lines printed so far

vars == <<predictions, output, fn, pc, predictions_u, scan, nc_u, nd_u,
          outcome, stdout>>

----------------------------------------------------------------------------
(* Exact arithmetic *)

Abs(x) == IF x < 0 THEN -x ELSE x

RECURSIVE GCD(_, _)
GCD(a, b) == IF b = 0 THEN a ELSE GCD(b, a % b)

\* The rational n / d (d > 0) in lowest terms.
Rat(n, d) ==
    LET g == GCD(Abs(n), d)
    IN  [n |-> n \div g, d |-> d \div g, r |-> 1]

Zero == Rat(0, 1)
One == Rat(1, 1)

RatAdd(a, b) == Rat(a.n * b.d + b.n * a.d, a.d * b.d)
RatDiv(a, b) == Rat(a.n * b.d, a.d * b.n)

\* Largest k in lo..hi-1 with k * k <= x, given lo * lo <= x < hi * hi.
RECURSIVE SqrtSearch(_, _, _)
SqrtSearch(x, lo, hi) ==
    IF hi - lo <= 1 THEN lo
    ELSE LET mid == (lo + hi) \div 2
         IN  IF mid * mid <= x THEN SqrtSearch(x, mid, hi)
             ELSE SqrtSearch(x, lo, mid)

ISqrt(x) == SqrtSearch(x, 0, 46341)

IsSquare(x) == ISqrt(x) * ISqrt(x) = x

RECURSIVE SumSeq(_)
SumSeq(s) == IF s = <<>> THEN 0 ELSE Head(s) + SumSeq(Tail(s))

RECURSIVE SumValues(_)
SumValues(f) ==
    IF DOMAIN f = {} THEN 0
    ELSE LET k == CHOOSE x \in DOMAIN f : TRUE
         IN  f[k] + SumValues([x \in DOMAIN f \ {k} |-> f[x]])

\* statistics.mean over a non-empty sequence of numbers: the exact mean.
Mean(s) == Rat(SumSeq(s), Len(s))

\* statistics.mean over the values of a non-empty dict.
MeanValues(f) == Rat(SumValues(f), Cardinality(DOMAIN f))

\* math.sqrt of a rational q >= 0: rational when q is a square, else the
\* irrational root, kept symbolically.
Sqrt(q) ==
    IF IsSquare(q.n) /\ IsSquare(q.d)
    THEN [n |-> ISqrt(q.n), d |-> ISqrt(q.d), r |-> 1]
    ELSE [n |-> q.n, d |-> q.d, r |-> 2]

\* The square of a value, a rational.
Square(v) == IF v.r = 2 THEN Rat(v.n, v.d) ELSE Rat(v.n * v.n, v.d * v.d)

\* a <= b for rationals.
RatLeq(a, b) == a.n * b.d <= b.n * a.d

\* a <= b for non-negative values.
Leq(a, b) == RatLeq(Square(a), Square(b))

----------------------------------------------------------------------------
(* Formatting: '{0:1.4f}'.format(v) *)

\* floor(4 * 10^8 * n / d), split so that no product leaves 32 bits.
Scaled(v) == 400000000 * (v.n \div v.d) + (400000000 * (v.n % v.d)) \div v.d

\* v rounded to the nearest multiple of 10^-4 (ties to even), as a count of
\* ten-thousandths.  For a root, floor(10^4 * sqrt(q) + 1/2) is
\* (floor(sqrt(4 * 10^8 * q)) + 1) \div 2, and a tie cannot happen.
Format4(v) ==
    IF v.r = 2 THEN (ISqrt(Scaled(v)) + 1) \div 2
    ELSE LET t == 20000 * v.n + v.d
             k == t \div (2 * v.d)
         IN  IF t % (2 * v.d) = 0 /\ k % 2 = 1 THEN k - 1 ELSE k

\* The printed line: the metric's name, then the value's integer part and its
\* four decimals.
Line(name, v) ==
    [name |-> name, int |-> Format4(v) \div 10000, dec |-> Format4(v) % 10000]

----------------------------------------------------------------------------
(* Outcomes of a call *)

NoOutcome == [kind |-> "none"]
Return(v) == [kind |-> "return", value |-> v]
EmptyError == [kind |-> "ValueError", msg |-> "prediction list is empty"]
DegenerateError ==
    [kind |-> "ValueError",
     msg |-> "cannot compute fcp on this list of prediction. Does every user have at least two predictions?"]

\* What a call leaves behind: its outcome and the lines it printed.
Raise(e) == [outcome |-> e, printed |-> <<>>]

\* Mutant: the line is printed whatever `output` is.
ReportAlways(name, v, out) ==
    [outcome |-> Return(v), printed |-> <<Line(name, v)>>]

\* if output: print(...); return v
ReportAndReturn(name, v, out) ==
    [outcome |-> Return(v),
     printed |-> IF out THEN <<Line(name, v)>> ELSE <<>>]

----------------------------------------------------------------------------
(* rmse and mae *)

Uid(p) == p[1]
TrueR(p) == p[2]
Est(p) == p[3]

\* Mutant: the error is not squared.
SqErrNoSquare(p) == TrueR(p) - Est(p)

\* float((true_r - est)**2)
SqErr(p) == (TrueR(p) - Est(p)) * (TrueR(p) - Est(p))

\* Mutant: the sign of the estimate is slipped.
AbsErrPlus(p) == Abs(TrueR(p) + Est(p))

\* float(abs(true_r - est))
AbsErr(p) == Abs(TrueR(p) - Est(p))

mse(preds) == Mean([k \in 1..Len(preds) |-> SqErr(preds[k])])

rmse(preds, out) ==
    IF preds = <<>> THEN Raise(EmptyError)
    ELSE ReportAndReturn("RMSE", Sqrt(mse(preds)), out)

\* Mutant: no emptiness check, so statistics.mean raises on the empty list.
maeNoCheck(preds, out) ==
    IF preds = <<>>
    THEN Raise([kind |-> "StatisticsError",
                msg |-> "mean requires at least one data point"])
    ELSE ReportAndReturn("MAE",
                         Mean([k \in 1..Len(preds) |-> AbsErr(preds[k])]), out)

mae(preds, out) ==
    IF preds = <<>> THEN Raise(EmptyError)
    ELSE ReportAndReturn("MAE",
                         Mean([k \in 1..Len(preds) |-> AbsErr(preds[k])]), out)

----------------------------------------------------------------------------
(* fcp *)

EmptyMap == [u \in {} |-> 0]

\* The keys of predictions_u in insertion order: the uids of the list in
\* order of first appearance.
RECURSIVE KeyOrder(_)
KeyOrder(preds) ==
    IF preds = <<>> THEN <<>>
    ELSE LET init == SubSeq(preds, 1, Len(preds) - 1)
             u == Uid(preds[Len(preds)])
             ks == KeyOrder(init)
         IN  IF \E i \in 1..Len(ks) : ks[i] = u THEN ks ELSE Append(ks, u)

\* The (r0, est) pairs of user u, in list order.
RECURSIVE PairsOf(_, _)
PairsOf(preds, u) ==
    IF preds = <<>> THEN <<>>
    ELSE LET rest == PairsOf(Tail(preds), u)
             p == Head(preds)
         IN  IF Uid(p) = u THEN <<(<<TrueR(p), Est(p)>>)>> \o rest ELSE rest

\* for u0, _, r0, est, _ in predictions: predictions_u[u0].append((r0, est))
GroupByUser(preds) ==
    [u \in {Uid(preds[k]) : k \in 1..Len(preds)} |-> PairsOf(preds, u)]

\* Mutant: the inner loop starts after i.
ScanPairsUpper(n) == {ij \in (1..n) \X (1..n) : ij[1] < ij[2]}

\* The (i, j) the two nested loops over one user's list visit.
ScanPairs(n) == (1..n) \X (1..n)

\* Mutant: the concordant test is not strict on the estimates.
IsConcordantLoose(pi, pj) == pi[2] >= pj[2] /\ pi[1] > pj[1]

\* esti > estj and r0i > r0j
IsConcordant(pi, pj) == pi[2] > pj[2] /\ pi[1] > pj[1]

\* Mutant: the discordant test is strict on the estimates.
IsDiscordantStrict(pi, pj) == pi[2] > pj[2] /\ pi[1] < pj[1]

\* Mutant: the discordant test is not strict on the true ratings.
IsDiscordantSelf(pi, pj) == pi[2] >= pj[2] /\ pi[1] <= pj[1]

\* esti >= estj and r0i < r0j
IsDiscordant(pi, pj) == pi[2] >= pj[2] /\ pi[1] < pj[1]

\* How many times line 106 runs for one user.
Concordant(ps) ==
    Cardinality({ij \in ScanPairs(Len(ps)) : IsConcordant(ps[ij[1]], ps[ij[2]])})

\* How many times line 108 runs for one user.
Discordant(ps) ==
    Cardinality({ij \in ScanPairs(Len(ps)) : IsDiscordant(ps[ij[1]], ps[ij[2]])})

\* A defaultdict(int) after `d[u] += 1` ran c times: u gets an entry only
\* when c > 0.
Bump(d, u, c) ==
    IF c = 0 THEN d
    ELSE [x \in DOMAIN d \cup {u} |->
            IF x = u THEN (IF u \in DOMAIN d THEN d[u] ELSE 0) + c ELSE d[x]]

\* nc = mean(nc_u.values()) if nc_u else 0
MeanOrZero(d) == IF DOMAIN d # {} THEN MeanValues(d) ELSE Zero

\* Mutant: the division is not guarded, ZeroDivisionError escapes.
AggregateNoCatch(ncu, ndu, out) ==
    LET nc == MeanOrZero(ncu)
        nd == MeanOrZero(ndu)
    IN  IF RatAdd(nc, nd).n = 0
        THEN Raise([kind |-> "ZeroDivisionError", msg |-> "division by zero"])
        ELSE ReportAndReturn("FCP", RatDiv(nc, RatAdd(nc, nd)), out)

\* Lines 110-122: the two means, the ratio, the report.
Aggregate(ncu, ndu, out) ==
    LET nc == MeanOrZero(ncu)
        nd == MeanOrZero(ndu)
    IN  IF RatAdd(nc, nd).n = 0 THEN Raise(DegenerateError)
        ELSE ReportAndReturn("FCP", RatDiv(nc, RatAdd(nc, nd)), out)

\* nc_u and nd_u after the loop of line 102 has visited every user.
RECURSIVE ScanAll(_, _, _)
ScanAll(pu, keys, acc) ==
    IF keys = <<>> THEN acc
    ELSE LET u == Head(keys)
         IN  ScanAll(pu, Tail(keys),
                     [nc_u |-> Bump(acc.nc_u, u, Concordant(pu[u])),
                      nd_u |-> Bump(acc.nd_u, u, Discordant(pu[u]))])

Counters(preds) ==
    ScanAll(GroupByUser(preds), KeyOrder(preds),
            [nc_u |-> EmptyMap, nd_u |-> EmptyMap])

fcp(preds, out) ==
    IF preds = <<>> THEN Raise(EmptyError)
    ELSE Aggregate(Counters(preds).nc_u, Counters(preds).nd_u, out)

----------------------------------------------------------------------------
(* The call *)

Init ==
    /\ predictions \in ListsUpTo(Prediction, MaxLen)
    /\ output \in BOOLEAN
    /\ fn = "none"
    /\ pc = "idle"
    /\ predictions_u = EmptyMap
    /\ scan = <<>>
    /\ nc_u = EmptyMap
    /\ nd_u = EmptyMap
    /\ outcome = NoOutcome
    /\ stdout = <<>>

InitWide ==
    /\ predictions \in ListsUpTo(PredictionWide, MaxLenWide)
    /\ output \in BOOLEAN
    /\ fn = "none"
    /\ pc = "idle"
    /\ predictions_u = EmptyMap
    /\ scan = <<>>
    /\ nc_u = EmptyMap
    /\ nd_u = EmptyMap
    /\ outcome = NoOutcome
    /\ stdout = <<>>

\* The call ends with result res.
Finish(res) ==
    /\ outcome' = res.outcome
    /\ stdout' = stdout \o res.printed
    /\ pc' = IF res.outcome.kind = "return" THEN "returned" ELSE "raised"

\* rmse(predictions, output), lines 30-39.
Rmse ==
    /\ pc = "idle"
    /\ fn' = "rmse"
    /\ Finish(rmse(predictions, output))
    /\ UNCHANGED <<predictions, output, predictions_u, scan, nc_u, nd_u>>

\* mae(predictions, output), lines 62-70.
Mae ==
    /\ pc = "idle"
    /\ fn' = "mae"
    /\ Finish(mae(predictions, output))
    /\ UNCHANGED <<predictions, output, predictions_u, scan, nc_u, nd_u>>

\* fcp, lines 92-100: the emptiness check and the grouping loop.
FcpGroup ==
    /\ pc = "idle"
    /\ fn' = "fcp"
    /\ IF predictions = <<>>
       THEN /\ Finish(Raise(EmptyError))
            /\ UNCHANGED <<predictions_u, scan>>
       ELSE /\ predictions_u' = GroupByUser(predictions)
            /\ scan' = KeyOrder(predictions)
            /\ pc' = "scan"
            /\ UNCHANGED <<outcome, stdout>>
    /\ UNCHANGED <<predictions, output, nc_u, nd_u>>

\* fcp, lines 102-108: one iteration of the loop over predictions_u.items().
FcpScanUser ==
    /\ pc = "scan"
    /\ scan # <<>>
    /\ LET u0 == Head(scan)
           preds == predictions_u[u0]
       IN  /\ nc_u' = Bump(nc_u, u0, Concordant(preds))
           /\ nd_u' = Bump(nd_u, u0, Discordant(preds))
    /\ scan' = Tail(scan)
    /\ UNCHANGED <<predictions, output, fn, pc, predictions_u, outcome, stdout>>

\* fcp, lines 110-122.
FcpAggregate ==
    /\ pc = "scan"
    /\ scan = <<>>
    /\ Finish(Aggregate(nc_u, nd_u, output))
    /\ UNCHANGED <<predictions, output, fn, predictions_u, scan, nc_u, nd_u>>

Next == Rmse \/ Mae \/ FcpGroup \/ FcpScanUser \/ FcpAggregate

Spec == Init /\ [][Next]_vars

SpecWide == InitWide /\ [][Next]_vars

Done == pc \in {"returned", "raised"}

\* The stepwise fcp ends as the function fcp does.
StepwiseAgrees ==
    /\ (Done /\ fn = "fcp") =>
          /\ outcome = fcp(predictions, output).outcome
          /\ stdout = fcp(predictions, output).printed
    /\ (pc = "scan" /\ scan = <<>>) =>
          /\ nc_u = Counters(predictions).nc_u
          /\ nd_u = Counters(predictions).nd_u

----------------------------------------------------------------------------
(* Vocabulary of the claims, stated on the caller's list itself *)

Called(f) == fn = f /\ Done

UsersIn == {predictions[k][1] : k \in 1..Len(predictions)}

\* The positions of user u's records in the list.
IdxOf(u) == {k \in 1..Len(predictions) : predictions[k][1] = u}

\* The unordered pairs of distinct records of user u.
UPairs(u) == {ij \in IdxOf(u) \X IdxOf(u) : ij[1] < ij[2]}

TrueAt(k) == predictions[k][2]
EstAt(k) == predictions[k][3]

\* Estimates and true ratings strictly ordered the same way.
AgreeAt(i, j) ==
    \/ EstAt(i) > EstAt(j) /\ TrueAt(i) > TrueAt(j)
    \/ EstAt(j) > EstAt(i) /\ TrueAt(j) > TrueAt(i)

\* Estimates and true ratings strictly ordered opposite ways.
OpposeAt(i, j) ==
    \/ EstAt(i) > EstAt(j) /\ TrueAt(i) < TrueAt(j)
    \/ EstAt(j) > EstAt(i) /\ TrueAt(j) < TrueAt(i)

\* Equal estimates, different true ratings.
TieAt(i, j) == EstAt(i) = EstAt(j) /\ TrueAt(i) # TrueAt(j)

\* A defaultdict(int) read without inserting.
Count(d, u) == IF u \in DOMAIN d THEN d[u] ELSE 0

\* The users the loop of line 102 has finished with.
Scanned == {u \in DOMAIN predictions_u : \A k \in 1..Len(scan) : scan[k] # u}

\* Pairs the glossary calls concordant and discordant, anywhere in the list.
HasConcordant == \E u \in UsersIn : \E ij \in UPairs(u) : AgreeAt(ij[1], ij[2])
HasDiscordant ==
    \E u \in UsersIn : \E ij \in UPairs(u) :
        OpposeAt(ij[1], ij[2]) \/ TieAt(ij[1], ij[2])

\* Concordant and discordant counts of user u, over the ordered pairs of u's
\* records.
ConcOf(u) ==
    Cardinality({ij \in IdxOf(u) \X IdxOf(u) :
                    EstAt(ij[1]) > EstAt(ij[2]) /\ TrueAt(ij[1]) > TrueAt(ij[2])})
DiscOf(u) ==
    Cardinality({ij \in IdxOf(u) \X IdxOf(u) :
                    EstAt(ij[1]) >= EstAt(ij[2]) /\ TrueAt(ij[1]) < TrueAt(ij[2])})

----------------------------------------------------------------------------
(* C1 *)

\* C1: whenever fcp returns a value, the value is nc / (nc + nd) with nc the
\* mean of the concordant counts over ALL users of the list and nd the mean
\* of the discordant counts over ALL users of the list (users with a count of
\* zero included).
C1_FcpIsRatioOfAllUserMeans ==
    (fn = "fcp" /\ pc = "returned") =>
        LET nu == Cardinality(UsersIn)
            nc == Rat(SumValues([u \in UsersIn |-> ConcOf(u)]), nu)
            nd == Rat(SumValues([u \in UsersIn |-> DiscOf(u)]), nu)
        IN  outcome.value = RatDiv(nc, RatAdd(nc, nd))

----------------------------------------------------------------------------
(* C2 *)

\* C2: a call of rmse, mae or fcp on the empty list ends in
\* ValueError('prediction list is empty'), with nothing accumulated, nothing
\* printed and nothing returned, whatever `output` is.
C2_EmptyListRaises ==
    (predictions = <<>> /\ fn # "none") =>
        /\ pc = "raised"
        /\ outcome = [kind |-> "ValueError", msg |-> "prediction list is empty"]
        /\ stdout = <<>>
        /\ DOMAIN predictions_u = {}
        /\ DOMAIN nc_u = {}
        /\ DOMAIN nd_u = {}

C2_Witness ==
    predictions = <<>> /\ fn = "mae" /\ output /\ pc = "raised"

----------------------------------------------------------------------------
(* C3 *)

IsDegenerate(o) ==
    /\ o.kind = "ValueError"
    /\ o.msg = "cannot compute fcp on this list of prediction. Does every user have at least two predictions?"

OnePredictionEach == \A u \in UsersIn : Cardinality(IdxOf(u)) = 1

\* C3: fcp on a non-empty list ends either with a value or with a ValueError;
\* it ends in the degenerate-FCP error exactly when nc + nd = 0, prints
\* nothing then, and does so whenever every user has exactly one prediction.
C3_DegenerateIffZeroAggregate ==
    (Called("fcp") /\ predictions # <<>>) =>
        /\ outcome.kind \in {"return", "ValueError"}
        /\ IsDegenerate(outcome) <=>
              RatAdd(MeanOrZero(nc_u), MeanOrZero(nd_u)) = Zero
        /\ IsDegenerate(outcome) => (stdout = <<>> /\ pc = "raised")
        /\ OnePredictionEach => IsDegenerate(outcome)

C3_Witness ==
    /\ Called("fcp")
    /\ Len(predictions) >= 2
    /\ OnePredictionEach
    /\ output
    /\ IsDegenerate(outcome)

----------------------------------------------------------------------------
(* C4 *)

ErrAt(k) == Abs(TrueAt(k) - EstAt(k))

SameAbsErrors == \A i, j \in 1..Len(predictions) : ErrAt(i) = ErrAt(j)

\* The value the called metric returned, or the value the other one returns
\* on the same list.
RmseValue ==
    IF fn = "rmse" THEN outcome.value ELSE rmse(predictions, FALSE).outcome.value
MaeValue ==
    IF fn = "mae" THEN outcome.value ELSE mae(predictions, FALSE).outcome.value

----------------------------------------------------------------------------
(* C5 *)

\* The list with the records at positions i and i + 1 exchanged.
SwapAt(l, i) ==
    [k \in 1..Len(l) |-> IF k = i THEN l[i + 1] ELSE IF k = i + 1 THEN l[i] ELSE l[k]]

CallOf(f, l, out) ==
    IF f = "rmse" THEN rmse(l, out)
    ELSE IF f = "mae" THEN mae(l, out)
    ELSE fcp(l, out)

\* C5: the outcome of rmse, mae and fcp (the value, or the error) is the same
\* on every permutation of the list.  Stated for the exchange of two
\* neighbours: every list up to the bound is an initial state, and every
\* permutation is a chain of such exchanges.
C5_OrderInvariant ==
    Done =>
        \A i \in 1..(Len(predictions) - 1) :
            CallOf(fn, SwapAt(predictions, i), output) =
                [outcome |-> outcome, printed |-> stdout]

C5_Witness ==
    /\ Called("fcp")
    /\ pc = "returned"
    /\ Len(predictions) = 3
    /\ \A i \in 1..2 : SwapAt(predictions, i) # predictions
    /\ outcome.value \notin {Zero, One}

----------------------------------------------------------------------------
(* C6 *)

AllExact == \A k \in 1..Len(predictions) : EstAt(k) = TrueAt(k)

\* C6: on a non-empty list whose every estimate equals the true rating, rmse
\* returns 0 and mae returns 0.
C6_ExactPredictionsGiveZero ==
    (Done /\ fn \in {"rmse", "mae"} /\ predictions # <<>> /\ AllExact) =>
        /\ pc = "returned"
        /\ outcome = [kind |-> "return", value |-> [n |-> 0, d |-> 1, r |-> 1]]

C6_Witness ==
    /\ Called("rmse")
    /\ Len(predictions) = 3
    /\ AllExact
    /\ \E i, j \in 1..3 : TrueAt(i) # TrueAt(j)
    /\ pc = "returned"

----------------------------------------------------------------------------
(* C7 *)

\* C7: fcp returns exactly 1 when some user has a concordant pair and no user
\* has a discordant pair, and exactly 0 when some user has a discordant pair
\* and no user has a concordant pair; it raises nothing in either case.
C7_FcpExtremes ==
    Called("fcp") =>
        /\ (HasConcordant /\ ~HasDiscordant) =>
              outcome = [kind |-> "return", value |-> [n |-> 1, d |-> 1, r |-> 1]]
        /\ (HasDiscordant /\ ~HasConcordant) =>
              outcome = [kind |-> "return", value |-> [n |-> 0, d |-> 1, r |-> 1]]

\* One user, three records, estimates in the strict inverse order of the true
\* ratings.
C7_Witness ==
    /\ Called("fcp")
    /\ Len(predictions) = 3
    /\ Cardinality(UsersIn) = 1
    /\ \A ij \in UPairs(predictions[1][1]) : OpposeAt(ij[1], ij[2])
    /\ outcome = Return(Zero)

----------------------------------------------------------------------------
(* C8 *)

MetricName == IF fn = "rmse" THEN "RMSE" ELSE IF fn = "mae" THEN "MAE" ELSE "FCP"

\* k ten-thousandths is v rounded to four decimals: |k / 10^4 - v| <= 1/2 * 10^-4.
IsRounded(k, v) ==
    IF v.r = 1 THEN Abs(2 * k * v.d - 20000 * v.n) <= v.d
    ELSE /\ (2 * k - 1) * (2 * k - 1) <= Scaled(v)
         /\ Scaled(v) < (2 * k + 1) * (2 * k + 1)

\* What has been printed is what the claim allows.
ReportOK ==
    IF Done /\ pc = "returned" /\ output
    THEN /\ Len(stdout) = 1
         /\ stdout[1].name = MetricName
         /\ stdout[1].dec \in 0..9999
         /\ IsRounded(10000 * stdout[1].int + stdout[1].dec, outcome.value)
    ELSE stdout = <<>>

\* C8: a call never changes the caller's list, also when it fails, and its
\* only effect is the report: one line, carrying the returned value, when
\* output is true and a value is returned, and nothing otherwise.
C8_OnlyEffectIsReport ==
    /\ [](ReportOK)
    /\ [][predictions' = predictions /\ output' = output]_vars

C8_Witness ==
    /\ Called("rmse")
    /\ output
    /\ pc = "returned"
    /\ outcome.value.r = 2
    /\ Len(stdout) = 1
    /\ Len(predictions) = 3

----------------------------------------------------------------------------
(* C9 *)

\* C9: over the full scan of a user's ordered pairs, two records with equal
\* estimates and different true ratings add exactly one to the user's
\* discordant counter and nothing to the concordant counter: the discordant
\* count is the number of such ties plus the number of pairs ordered opposite
\* ways, and the concordant count is the number of pairs ordered the same way.
C9_TieCountsOnceAsDiscordant ==
    \A u \in Scanned :
        /\ Count(nd_u, u) =
              Cardinality({ij \in UPairs(u) : TieAt(ij[1], ij[2])})
              + Cardinality({ij \in UPairs(u) : OpposeAt(ij[1], ij[2])})
        /\ Count(nc_u, u) =
              Cardinality({ij \in UPairs(u) : AgreeAt(ij[1], ij[2])})

\* A user whose only two records tie on the estimate and differ on the true
\* rating.
C9_Witness ==
    \E u \in Scanned :
        /\ Cardinality(IdxOf(u)) = 2
        /\ \A ij \in UPairs(u) : TieAt(ij[1], ij[2])
        /\ nd_u[u] = 1
        /\ u \notin DOMAIN nc_u

----------------------------------------------------------------------------
(* C10 *)

OneTrueRatingEach ==
    \A u \in UsersIn : \A i, j \in IdxOf(u) : TrueAt(i) = TrueAt(j)

\* C10: after the scan of a user, concordant + discordant is the number of
\* unordered pairs of distinct records of the user with different true
\* ratings; and fcp on a non-empty list ends in the degenerate-FCP error
\* exactly when every user's records share one true rating.
C10_CountsPartitionPairs ==
    /\ \A u \in Scanned :
          Count(nc_u, u) + Count(nd_u, u) =
              Cardinality({ij \in UPairs(u) : TrueAt(ij[1]) # TrueAt(ij[2])})
    /\ (Called("fcp") /\ predictions # <<>>) =>
          (IsDegenerate(outcome) <=> OneTrueRatingEach)

\* The degenerate error on a list in which every user has two predictions or
\* more.
C10_Witness ==
    /\ Called("fcp")
    /\ predictions # <<>>
    /\ \A u \in UsersIn : Cardinality(IdxOf(u)) >= 2
    /\ \E i, j \in 1..Len(predictions) : EstAt(i) # EstAt(j)
    /\ IsDegenerate(outcome)

====
